---------------------------- MODULE Spec2Model ----------------------------
(***************************************************************************)
(* Warm-up / working-set calculator (src/src/App.jsx and its variants in   *)
(* src/unnamed/part_000, part_001).                                        *)
(*                                                                         *)
(* Numbers are fixed point, in hundredths: 62.5 kg is 6250, 2.5 % is 250.  *)
(* Non-integral intermediate values (an average, 0.82 * firstSet) are kept *)
(* as a numerator over a denominator and only ever rounded or compared, so *)
(* the arithmetic is exact; on the values used here (steps of 2.5 and 5,   *)
(* weights in quarter kilograms below 300 kg) IEEE doubles give the same   *)
(* results.  NaN is one distinguished value.                               *)
(* Texts are sequences of one-character strings.                           *)
(***************************************************************************)
EXTENDS Integers, Sequences, FiniteSets, TLC

VARIABLES
    lift, barWeight, rounding,                 \* global controls
    quickRepsPattern, lastWeekWeights, felt,   \* quick-mode inputs
    progressionMode, kgInc, pctInc,
    wuOffset, superHeavy,                      \* warm-up rule controls
    warmupInput, workInput,                    \* manual scheme texts
    quickParsed, lastWeights,                  \* memoised values (useMemo)
    suggestionDelta, suggestedWeights,
    autoWarmups,                               \* offset policy (App.jsx)
    topSuggested, rampWarmups,                 \* percentage ramp (part_000)
    warmParsed, workParsed,                    \* manual scheme (useMemo)
    warmRows, workRows,
    effectPending,                             \* the kgInc reset effect is queued
    call, ret                                  \* a helper called on its own: its
                                               \* arguments, the values returned

manual == << warmupInput, workInput >>
inputs == << lift, barWeight, rounding, quickRepsPattern, lastWeekWeights,
             felt, progressionMode, kgInc, pctInc, wuOffset, superHeavy, manual >>
memos  == << quickParsed, lastWeights, suggestionDelta, suggestedWeights,
             autoWarmups, topSuggested, rampWarmups,
             warmParsed, workParsed, warmRows, workRows >>
helper == << call, ret >>
vars   == << inputs, memos, effectPending, helper >>

---------------------------------------------------------------------------
(* Numbers *)

\* The value parseFloat gives for a cleared field; it is outside every range used.
NaN == 0 - 2147483647

isNaN(x) == x = NaN

\* floor(a / b), b # 0
FloorDiv(a, b) == IF b > 0 THEN a \div b ELSE (0 - a) \div (0 - b)

\* Math.round(num / den): the nearest integer, a tie going up.
MathRound(num, den) == FloorDiv(2 * num + den, 2 * den)

\* roundTo applied to the value num / den (den > 0).  A finite value divided
\* by a NaN or zero step is NaN or infinite, and times the step it is NaN.
roundToQ(num, den, step) ==
    IF isNaN(num) THEN 0
    ELSE IF isNaN(step) \/ step = 0 THEN NaN
    ELSE MathRound(num, den * step) * step

roundTo(val, step) == roundToQ(val, 1, step)

\* a + b, a * k, Math.max, Math.min of IEEE numbers that may be NaN
Plus(a, b)    == IF isNaN(a) \/ isNaN(b) THEN NaN ELSE a + b
Times(a, k)   == IF isNaN(a) THEN NaN ELSE a * k
MathMax(a, b) == IF isNaN(a) \/ isNaN(b) THEN NaN ELSE IF a >= b THEN a ELSE b
MathMin(a, b) == IF isNaN(a) \/ isNaN(b) THEN NaN ELSE IF a <= b THEN a ELSE b
\* a < b, false when either is NaN
Less(a, b)    == ~isNaN(a) /\ ~isNaN(b) /\ a < b

---------------------------------------------------------------------------
(* IEEE doubles, for the values on which the exact arithmetic above and the
   program's arithmetic differ.  An unsigned integer is a sequence of limbs,
   least significant first and without leading zeros.  A double is the value
   (-1)^neg * m * 2^e with m odd and below 2^53, or zero, or NaN.  Exponents
   stay far from the subnormal and overflow ranges on the values used, and a
   divisor has a mantissa of one limb (every rounding step k / 4 has). *)

\* the limb base, 2^15: a product of two limbs and a carry fit a 32-bit integer
Limb == 32768
LimbBits == 15

RECURSIVE Pow2(_)
Pow2(n) == IF n = 0 THEN 1 ELSE 2 * Pow2(n - 1)

RECURSIVE BNorm(_)
BNorm(a) ==
    IF a # <<>> /\ a[Len(a)] = 0 THEN BNorm(SubSeq(a, 1, Len(a) - 1)) ELSE a

RECURSIVE BFromInt(_)
BFromInt(n) == IF n = 0 THEN <<>> ELSE <<n % Limb>> \o BFromInt(n \div Limb)

RECURSIVE BAddC(_, _, _)
BAddC(a, b, c) ==
    IF a = <<>> /\ b = <<>> THEN (IF c = 0 THEN <<>> ELSE <<c>>)
    ELSE LET x == IF a = <<>> THEN 0 ELSE Head(a)
             y == IF b = <<>> THEN 0 ELSE Head(b)
             t == x + y + c
         IN  <<t % Limb>> \o BAddC(IF a = <<>> THEN a ELSE Tail(a),
                                   IF b = <<>> THEN b ELSE Tail(b), t \div Limb)

BAdd(a, b) == BAddC(a, b, 0)

\* a - b for a >= b
RECURSIVE BSubC(_, _, _)
BSubC(a, b, c) ==
    IF a = <<>> THEN <<>>
    ELSE LET y == IF b = <<>> THEN 0 ELSE Head(b)
             t == Head(a) - y - c
         IN  <<t % Limb>> \o BSubC(Tail(a), IF b = <<>> THEN b ELSE Tail(b),
                                   IF t < 0 THEN 1 ELSE 0)

BSub(a, b) == BNorm(BSubC(a, b, 0))

RECURSIVE BGeq(_, _)
BGeq(a, b) ==
    IF Len(a) # Len(b) THEN Len(a) > Len(b)
    ELSE IF a = <<>> THEN TRUE
    ELSE IF a[Len(a)] # b[Len(b)] THEN a[Len(a)] > b[Len(b)]
    ELSE BGeq(SubSeq(a, 1, Len(a) - 1), SubSeq(b, 1, Len(b) - 1))

\* a * k for 0 <= k < Limb
RECURSIVE BMulSmallC(_, _, _)
BMulSmallC(a, k, c) ==
    IF a = <<>> THEN (IF c = 0 THEN <<>> ELSE <<c>>)
    ELSE LET t == Head(a) * k + c
         IN  <<t % Limb>> \o BMulSmallC(Tail(a), k, t \div Limb)

BMulSmall(a, k) == BNorm(BMulSmallC(a, k, 0))

RECURSIVE BMul(_, _)
BMul(a, b) ==
    IF b = <<>> \/ a = <<>> THEN <<>>
    ELSE BAdd(BMulSmall(a, Head(b)),
              LET r == BMul(a, Tail(b)) IN IF r = <<>> THEN r ELSE <<0>> \o r)

\* a * 2^n
BShl(a, n) ==
    IF a = <<>> THEN a
    ELSE [i \in 1..(n \div LimbBits) |-> 0] \o BMulSmall(a, Pow2(n % LimbBits))

\* floor(a / k) for 0 < k <= Limb
RECURSIVE BDivSmallR(_, _, _)
BDivSmallR(a, k, r) ==
    IF a = <<>> THEN <<>>
    ELSE LET t == r * Limb + a[Len(a)]
         IN  Append(BDivSmallR(SubSeq(a, 1, Len(a) - 1), k, t % k), t \div k)

\* floor(a / 2^n)
BShr(a, n) ==
    LET w == n \div LimbBits
    IN  IF w >= Len(a) THEN <<>>
        ELSE BNorm(BDivSmallR(SubSeq(a, w + 1, Len(a)), Pow2(n % LimbBits), 0))

RECURSIVE IntBitLen(_)
IntBitLen(n) == IF n = 0 THEN 0 ELSE 1 + IntBitLen(n \div 2)

BBitLen(a) ==
    IF a = <<>> THEN 0 ELSE LimbBits * (Len(a) - 1) + IntBitLen(a[Len(a)])

\* bit i of a, bit 0 the least significant
BBit(a, i) ==
    IF i \div LimbBits >= Len(a) THEN 0
    ELSE (a[i \div LimbBits + 1] \div Pow2(i % LimbBits)) % 2

BOdd(a) == a # <<>> /\ Head(a) % 2 = 1

\* a mod 2^n
BLow(a, n) == BSub(a, BShl(BShr(a, n), n))

\* quotient and remainder of a by k, 0 < k < Limb
BDivModSmall(a, k) ==
    LET q == BNorm(BDivSmallR(a, k, 0))
    IN  <<q, BSub(a, BMulSmall(q, k))>>

RECURSIVE IntTrailingZeros(_)
IntTrailingZeros(n) == IF n % 2 = 1 THEN 0 ELSE 1 + IntTrailingZeros(n \div 2)

\* the number of zero bits under the lowest set bit of a # 0
RECURSIVE BTrailingZeros(_)
BTrailingZeros(a) ==
    IF Head(a) = 0 THEN LimbBits + BTrailingZeros(Tail(a))
    ELSE IntTrailingZeros(Head(a))

NaN64  == [nan |-> TRUE,  neg |-> FALSE, m |-> <<>>, e |-> 0]
Zero64 == [nan |-> FALSE, neg |-> FALSE, m |-> <<>>, e |-> 0]

\* the double of value (-1)^neg * m * 2^e, m # 0 of at most 53 bits
Canon64(neg, m, e) ==
    LET z == BTrailingZeros(m)
    IN  [nan |-> FALSE, neg |-> neg, m |-> BShr(m, z), e |-> e + z]

\* the double nearest to (-1)^neg * (n / k) * 2^e, a tie going to the even
\* mantissa: n * 2^j / k is cut to a quotient of 55 bits or more, the bits
\* under the 53rd and the remainder decide the rounding
Fl64(neg, n, k, e) ==
    IF n = <<>> THEN Zero64
    ELSE LET need == 55 + IntBitLen(k) - BBitLen(n)
             j    == IF need > 0 THEN need ELSE 0
             qr   == BDivModSmall(BShl(n, j), k)
             q    == qr[1]
             t    == BBitLen(q) - 53
             hi   == BShr(q, t)
             low  == BLow(q, t)
             half == BShl(<<1>>, t - 1)
             up   == IF low = half /\ qr[2] = <<>> THEN BOdd(hi)
                     ELSE BGeq(low, half)
         IN  Canon64(neg, IF up THEN BAdd(hi, <<1>>) ELSE hi, e - j + t)

\* a / b and a * b of doubles, b not zero in a / b
Div64(a, b) ==
    IF a.nan \/ b.nan THEN NaN64
    ELSE Fl64(a.neg # b.neg, a.m, b.m[1], a.e - b.e)
Mul64(a, b) ==
    IF a.nan \/ b.nan THEN NaN64
    ELSE Fl64(a.neg # b.neg, BMul(a.m, b.m), 1, a.e + b.e)

\* Math.round of a double: floor(a + 1/2), computed exactly
MathRound64(a) ==
    IF a.nan \/ a.m = <<>> \/ a.e >= 0 THEN a
    ELSE LET f    == 0 - a.e
             half == BShl(<<1>>, f - 1)
         IN  IF ~a.neg THEN Fl64(FALSE, BShr(BAdd(a.m, half), f), 1, 0)
             ELSE IF BGeq(a.m, half)
             THEN Fl64(TRUE, BShr(BAdd(BSub(a.m, half), BSub(BShl(<<1>>, f), <<1>>)), f),
                       1, 0)
             ELSE Zero64

\* roundTo64 without the multiplication back by the step
roundTo64_NoScale(val, step) ==
    IF val.nan THEN Zero64
    ELSE IF step.nan \/ step.m = <<>> THEN NaN64
    ELSE MathRound64(Div64(val, step))

\* roundTo on doubles; a zero step gives an infinite quotient and a NaN product
roundTo64(val, step) ==
    IF val.nan THEN Zero64
    ELSE IF step.nan \/ step.m = <<>> THEN NaN64
    ELSE Mul64(MathRound64(Div64(val, step)), step)

---------------------------------------------------------------------------
(* Texts *)

Digits == {"0", "1", "2", "3", "4", "5", "6", "7", "8", "9"}
Space  == {" ", "\n"}

DigitVal(c) ==
    CASE c = "0" -> 0 [] c = "1" -> 1 [] c = "2" -> 2 [] c = "3" -> 3
      [] c = "4" -> 4 [] c = "5" -> 5 [] c = "6" -> 6 [] c = "7" -> 7
      [] c = "8" -> 8 [] c = "9" -> 9

\* the length of the longest prefix of s made of characters of set cs
RECURSIVE Run(_, _)
Run(s, cs) ==
    IF s # <<>> /\ Head(s) \in cs THEN 1 + Run(Tail(s), cs) ELSE 0

Drop(s, n) == SubSeq(s, n + 1, Len(s))
Take(s, n) == SubSeq(s, 1, n)

RECURSIVE Reverse(_)
Reverse(s) == IF s = <<>> THEN <<>> ELSE Append(Reverse(Tail(s)), Head(s))

\* String.prototype.trim
Trim(s) ==
    LET t == Drop(s, Run(s, Space))
    IN  Take(t, Len(t) - Run(Reverse(t), Space))

\* parseInt(ds, 10) of a non-empty string of digits
RECURSIVE ParseInt(_)
ParseInt(ds) ==
    IF ds = <<>> THEN 0
    ELSE 10 * ParseInt(Take(ds, Len(ds) - 1)) + DigitVal(ds[Len(ds)])

\* s.split(/[seps]+/) without the empty pieces, which every caller removes
\* (filter(Boolean), or parseFloat("") being NaN): the maximal runs of
\* characters that are not separators.
RECURSIVE Fields(_, _)
Fields(s, seps) ==
    LET t == Drop(s, Run(s, seps))
        n == Run(t, {t[i] : i \in 1..Len(t)} \ seps)
    IN  IF t = <<>> THEN <<>> ELSE <<Take(t, n)>> \o Fields(Drop(t, n), seps)

\* parseFloat: optional sign, digits, optional fraction; NaN without a digit.
\* The value is in hundredths (fraction digits after the second are cut; the
\* texts of the model have at most two).  Exponents and "Infinity" are not
\* modelled: no text of the model holds an e or an I.
parseFloat(s) ==
    LET t    == Drop(s, Run(s, Space))
        neg  == t # <<>> /\ Head(t) = "-"
        u    == IF t # <<>> /\ Head(t) \in {"-", "+"} THEN Tail(t) ELSE t
        ni   == Run(u, Digits)
        v    == Drop(u, ni)
        dot  == v # <<>> /\ Head(v) = "."
        frac == IF dot THEN Take(Tail(v), Run(Tail(v), Digits)) ELSE <<>>
        f1   == IF Len(frac) >= 1 THEN DigitVal(frac[1]) ELSE 0
        f2   == IF Len(frac) >= 2 THEN DigitVal(frac[2]) ELSE 0
        mag  == 100 * ParseInt(Take(u, ni)) + 10 * f1 + f2
    IN  IF ni = 0 /\ frac = <<>> THEN NaN
        ELSE IF neg THEN 0 - mag ELSE mag

---------------------------------------------------------------------------
(* The calculator pipeline *)

Felts == <<"easy", "solid", "hard", "missed">>

\* defaultKgIncrements giving every lift the same table
defaultKgIncrements_OneTable(l) ==
    [easy |-> 500, solid |-> 250, hard |-> 0, missed |-> 0 - 250]

\* defaultKgIncrements: the kg increment table of a lift
defaultKgIncrements(l) ==
    IF l = "Bench"
    THEN [easy |-> 250, solid |-> 125, hard |-> 0, missed |-> 0 - 125]
    ELSE [easy |-> 500, solid |-> 250, hard |-> 0, missed |-> 0 - 250]

\* the initial percentage table
defaultPctIncrements == [easy |-> 500, solid |-> 250, hard |-> 0, missed |-> 0 - 250]

\* /^\d+$/.test(p)
AllDigits(p) == p # <<>> /\ Run(p, Digits) = Len(p)

\* MatchSetsByReps accepting the lower-case x only
MatchSetsByReps_LowerOnly(rx) ==
    LET n1 == Run(rx, Digits)
        a  == Drop(rx, n1)
        b  == Drop(a, Run(a, Space))
        c  == IF b = <<>> THEN <<>> ELSE Tail(b)
        d  == Drop(c, Run(c, Space))
    IN  IF n1 > 0 /\ b # <<>> /\ Head(b) = "x" /\ AllDigits(d)
        THEN <<Take(rx, n1), d>>
        ELSE <<>>

\* rx.match(/^(\d+)\s*[xX]\s*(\d+)$/): the two groups, or <<>> for no match
MatchSetsByReps(rx) ==
    LET n1 == Run(rx, Digits)
        a  == Drop(rx, n1)
        b  == Drop(a, Run(a, Space))
        c  == IF b = <<>> THEN <<>> ELSE Tail(b)
        d  == Drop(c, Run(c, Space))
    IN  IF n1 > 0 /\ b # <<>> /\ Head(b) \in {"x", "X"} /\ AllDigits(d)
        THEN <<Take(rx, n1), d>>
        ELSE <<>>

\* parseSetsPattern splitting at commas only
parseSetsPattern_CommaOnly(s) ==
    LET rx    == Trim(s)
        m     == MatchSetsByReps(rx)
        raw   == Fields(rx, {","})
        cut   == [i \in 1..Len(raw) |-> Trim(raw[i])]
        parts == SelectSeq(cut, LAMBDA p : p # <<>>)
    IN  IF m # <<>>
        THEN [sets |-> ParseInt(m[1]),
              reps |-> [i \in 1..ParseInt(m[1]) |-> ParseInt(m[2])]]
        ELSE IF \A i \in 1..Len(parts) : AllDigits(parts[i])
        THEN [sets |-> Len(parts),
              reps |-> [i \in 1..Len(parts) |-> ParseInt(parts[i])]]
        ELSE [sets |-> 0, reps |-> <<>>]

\* parseSetsPattern dropping the tokens that are not integers
parseSetsPattern_SkipJunk(s) ==
    LET rx    == Trim(s)
        m     == MatchSetsByReps(rx)
        raw   == Fields(rx, {",", "-"})
        cut   == [i \in 1..Len(raw) |-> Trim(raw[i])]
        parts == SelectSeq(cut, LAMBDA p : AllDigits(p))
    IN  IF m # <<>>
        THEN [sets |-> ParseInt(m[1]),
              reps |-> [i \in 1..ParseInt(m[1]) |-> ParseInt(m[2])]]
        ELSE [sets |-> Len(parts),
              reps |-> [i \in 1..Len(parts) |-> ParseInt(parts[i])]]

parseSetsPattern(s) ==
    LET rx    == Trim(s)
        m     == MatchSetsByReps(rx)
        raw   == Fields(rx, {",", "-"})
        cut   == [i \in 1..Len(raw) |-> Trim(raw[i])]
        parts == SelectSeq(cut, LAMBDA p : p # <<>>)
    IN  IF m # <<>>
        THEN [sets |-> ParseInt(m[1]),
              reps |-> [i \in 1..ParseInt(m[1]) |-> ParseInt(m[2])]]
        ELSE IF \A i \in 1..Len(parts) : AllDigits(parts[i])
        THEN [sets |-> Len(parts),
              reps |-> [i \in 1..Len(parts) |-> ParseInt(parts[i])]]
        ELSE [sets |-> 0, reps |-> <<>>]

\* lastWeekWeights.split(/[\n,]+/).map(parseFloat(trim)).filter(not NaN)
parseLastWeights(text) ==
    LET raw == Fields(text, {"\n", ","})
        num == [i \in 1..Len(raw) |-> parseFloat(Trim(raw[i]))]
    IN  SelectSeq(num, LAMBDA n : ~isNaN(n))

RECURSIVE Sum(_)
Sum(ws) == IF ws = <<>> THEN 0 ELSE Head(ws) + Sum(Tail(ws))

\* computeSuggestionDelta with Math.floor in place of Math.round
computeSuggestionDelta_Floor(mode, kg, pct, f, ws, step) ==
    IF mode = "kg" THEN kg[f]
    ELSE IF ws = <<>> \/ isNaN(pct[f]) THEN 0
    ELSE IF isNaN(step) \/ step = 0 THEN NaN
    ELSE FloorDiv(pct[f] * Sum(ws), 10000 * Len(ws) * step) * step

\* suggestionDelta: the table entry in kg mode; in percentage mode the mean
\* of the weights times the percentage over 100, rounded.
computeSuggestionDelta(mode, kg, pct, f, ws, step) ==
    IF mode = "kg" THEN kg[f]
    ELSE IF ws = <<>> THEN roundToQ(Times(pct[f], 0), 1000000, step)
    ELSE roundToQ(Times(pct[f], Sum(ws)), 10000 * Len(ws), step)

\* baseArr padding a short list with 0 instead of its last entry
baseArr_PadZero(parsed, ws) ==
    LET sets == IF parsed.sets # 0 THEN parsed.sets ELSE Len(ws)
    IN  [i \in 1..sets |-> IF i <= Len(ws) THEN ws[i] ELSE 0]

\* baseArr without the fall-back to the weight list when the pattern is empty
baseArr_NoFallback(parsed, ws) ==
    [i \in 1..parsed.sets |->
        IF i <= Len(ws) THEN ws[i]
        ELSE IF ws # <<>> THEN ws[Len(ws)]
        ELSE 0]

\* the per-set base weights
baseArr(parsed, ws) ==
    LET sets == IF parsed.sets # 0 THEN parsed.sets ELSE Len(ws)
    IN  IF sets # 0
        THEN IF Len(ws) = sets THEN ws
             ELSE [i \in 1..sets |->
                      IF i <= Len(ws) THEN ws[i]
                      ELSE IF ws # <<>> THEN ws[Len(ws)]
                      ELSE 0]
        ELSE ws

\* computeSuggestedWeights rounding the base weight before the delta is added
computeSuggestedWeights_RoundFirst(parsed, ws, delta, step) ==
    LET base == baseArr(parsed, ws)
    IN  [i \in 1..Len(base) |-> Plus(roundTo(base[i], step), delta)]

\* computeSuggestedWeights without the rounding
computeSuggestedWeights_NoRound(parsed, ws, delta, step) ==
    LET base == baseArr(parsed, ws)
    IN  [i \in 1..Len(base) |-> Plus(base[i], delta)]

computeSuggestedWeights(parsed, ws, delta, step) ==
    LET base == baseArr(parsed, ws)
    IN  [i \in 1..Len(base) |-> roundTo(Plus(base[i], delta), step)]

\* suggestedWeights[0] || 0
firstWorkingOf(sw) ==
    IF sw = <<>> \/ isNaN(sw[1]) THEN 0 ELSE sw[1]

\* suggestedWeights.reduce((m, v) => (v > m ? v : m), 0)
RECURSIVE heaviestOf(_)
heaviestOf(sw) ==
    IF sw = <<>> THEN 0
    ELSE LET m == heaviestOf(Take(sw, Len(sw) - 1))
             v == sw[Len(sw)]
         IN  IF Less(m, v) THEN v ELSE m

firstWorking    == firstWorkingOf(suggestedWeights)
heaviestWorking == heaviestOf(suggestedWeights)

\* a || b || 60 of numbers: the first that is neither 0 nor NaN
baseOf(heaviest, first) ==
    IF heaviest # 0 /\ ~isNaN(heaviest) THEN heaviest
    ELSE IF first # 0 /\ ~isNaN(first) THEN first
    ELSE 6000

\* heaviestWorking || firstWorking || 60 (App.jsx)
baseForPercent == baseOf(heaviestWorking, firstWorking)
\* topSuggested || 60 (part_000)
trainingMax == baseOf(topSuggested, 0)

---------------------------------------------------------------------------
(* The manual scheme *)

\* tok.match(/^(\d+)\s*[x@]\s*(\d+(?:\.\d+)?)\s*(%)?$/i) and the item made
\* of its groups: <<item>>, or <<>> for no match
MatchScheme(tok) ==
    LET n1   == Run(tok, Digits)
        a    == Drop(tok, n1)
        b    == Drop(a, Run(a, Space))
        c    == IF b = <<>> THEN <<>> ELSE Tail(b)
        d    == Drop(c, Run(c, Space))
        n2   == Run(d, Digits)
        e    == Drop(d, n2)
        frac == Len(e) >= 2 /\ e[1] = "." /\ e[2] \in Digits
        n3   == IF frac THEN 1 + Run(Tail(e), Digits) ELSE 0
        f    == Drop(d, n2 + n3)
        g    == Drop(f, Run(f, Space))
    IN  IF n1 > 0 /\ b # <<>> /\ Head(b) \in {"x", "X", "@"} /\ n2 > 0
           /\ (g = <<>> \/ g = <<"%">>)
        THEN << [reps      |-> ParseInt(Take(tok, n1)),
                 value     |-> parseFloat(Take(d, n2 + n3)),
                 isPercent |-> (g = <<"%">>),
                 raw       |-> tok] >>
        ELSE <<>>

\* .map(match).filter(Boolean): the items of the tokens that match, in order
RECURSIVE MatchAll(_)
MatchAll(toks) ==
    IF toks = <<>> THEN <<>> ELSE MatchScheme(Head(toks)) \o MatchAll(Tail(toks))

\* MatchAll giving up at the first token that does not match
RECURSIVE MatchAll_StopAtJunk(_)
MatchAll_StopAtJunk(toks) ==
    IF toks = <<>> \/ MatchScheme(Head(toks)) = <<>> THEN <<>>
    ELSE MatchScheme(Head(toks)) \o MatchAll_StopAtJunk(Tail(toks))

parseScheme_StopAtJunk(input) ==
    LET raw == Fields(input, {"\n", ","})
        cut == [i \in 1..Len(raw) |-> Trim(raw[i])]
    IN  MatchAll_StopAtJunk(SelectSeq(cut, LAMBDA t : t # <<>>))

parseScheme(input) ==
    LET raw == Fields(input, {"\n", ","})
        cut == [i \in 1..Len(raw) |-> Trim(raw[i])]
    IN  MatchAll(SelectSeq(cut, LAMBDA t : t # <<>>))

\* the row of calcRows for one item: base * value / 100 kg for a percentage
\* (base and value in hundredths: base * value / 10000 hundredths), else
\* the value, rounded.  The display text of a row is made of its reps and
\* weight and is not kept.
RowOf(item, base, step) ==
    [reps      |-> item.reps,
     weight    |-> IF item.isPercent
                   THEN roundToQ(Times(base, item.value), 10000, step)
                   ELSE roundTo(item.value, step),
     isPercent |-> item.isPercent,
     raw       |-> item.raw]

\* calcRows({ scheme, base, rounding }) of App.jsx
calcRows(scheme, base, step) ==
    [i \in 1..Len(scheme) |-> RowOf(scheme[i], base, step)]

\* calcRows({ scheme, base, rounding, minLoad }) of part_000 and part_001:
\* .filter((r) => r.weight >= (minLoad ?? 0)), false for a NaN weight
calcRowsMinLoad(scheme, base, step, minLoad) ==
    SelectSeq(calcRows(scheme, base, step),
              LAMBDA r : ~isNaN(r.weight) /\ r.weight >= minLoad)

---------------------------------------------------------------------------
(* Warm-up generators *)

Rung(r, w) == [reps |-> r, weight |-> w]

\* seq.sort((a, b) => a.weight - b.weight): a stable sort, ascending by weight
RECURSIVE InsertRung(_, _)
InsertRung(s, r) ==
    IF s # <<>> /\ Less(r.weight, s[Len(s)].weight)
    THEN Append(InsertRung(Take(s, Len(s) - 1), r), s[Len(s)])
    ELSE Append(s, r)

RECURSIVE SortByWeight(_)
SortByWeight(s) ==
    IF s = <<>> THEN <<>>
    ELSE InsertRung(SortByWeight(Take(s, Len(s) - 1)), s[Len(s)])

\* the offset clamped to 5-10 kg
clampOffset(offsetKg) == MathMax(500, MathMin(1000, offsetKg))

\* the three weights generateGymWarmups derives from the first working set
lastWUOf(firstSet, step, bar, offsetKg) ==
    roundTo(MathMax(bar, firstSet - clampOffset(offsetKg)), step)
s1Of(firstSet, step, bar) ==
    roundToQ(MathMax(Times(bar, 100), firstSet * 40), 100, step)
\* s2Of at 50 % instead of 60 %
s2Of_Half(firstSet, step, bar) ==
    roundToQ(MathMax(Times(bar, 100), firstSet * 50), 100, step)

s2Of(firstSet, step, bar) ==
    roundToQ(MathMax(Times(bar, 100), firstSet * 60), 100, step)
s3Of(firstSet, step, bar, offsetKg) ==
    roundToQ(MathMin(Times(lastWUOf(firstSet, step, bar, offsetKg), 100),
                     MathMax(Times(bar, 100), firstSet * 82)), 100, step)

\* generateGymWarmups without the final sort
generateGymWarmups_NoSort(firstSet, roundingStep, isHeavy, bar, offsetKg) ==
    IF firstSet = 0 \/ isNaN(firstSet) THEN <<>>
    ELSE LET lastWU == lastWUOf(firstSet, roundingStep, bar, offsetKg)
             s1     == s1Of(firstSet, roundingStep, bar)
             s2     == s2Of(firstSet, roundingStep, bar)
             s3     == s3Of(firstSet, roundingStep, bar, offsetKg)
         IN  IF isHeavy /\ Less(s3, lastWU)
             THEN <<Rung(5, s1), Rung(3, s2), Rung(1, s3), Rung(1, lastWU)>>
             ELSE <<Rung(5, s1), Rung(3, s2), Rung(1, lastWU)>>

\* generateGymWarmups inserting the heavy single whenever the flag is set
generateGymWarmups_AlwaysInsert(firstSet, roundingStep, isHeavy, bar, offsetKg) ==
    IF firstSet = 0 \/ isNaN(firstSet) THEN <<>>
    ELSE LET lastWU == lastWUOf(firstSet, roundingStep, bar, offsetKg)
             s1     == s1Of(firstSet, roundingStep, bar)
             s2     == s2Of(firstSet, roundingStep, bar)
             s3     == s3Of(firstSet, roundingStep, bar, offsetKg)
         IN  SortByWeight(IF isHeavy
                          THEN <<Rung(5, s1), Rung(3, s2), Rung(1, s3), Rung(1, lastWU)>>
                          ELSE <<Rung(5, s1), Rung(3, s2), Rung(1, lastWU)>>)

\* generateGymWarmups without the early return for a missing first set
generateGymWarmups_NoGuard(firstSet, roundingStep, isHeavy, bar, offsetKg) ==
    LET lastWU == lastWUOf(firstSet, roundingStep, bar, offsetKg)
        s1     == s1Of(firstSet, roundingStep, bar)
        s2     == s2Of(firstSet, roundingStep, bar)
        s3     == s3Of(firstSet, roundingStep, bar, offsetKg)
        seq    == IF isHeavy /\ Less(s3, lastWU)
                  THEN <<Rung(5, s1), Rung(3, s2), Rung(1, s3), Rung(1, lastWU)>>
                  ELSE <<Rung(5, s1), Rung(3, s2), Rung(1, lastWU)>>
    IN  SortByWeight(seq)

\* generateGymWarmups (offset policy); wuOffset is read from the component
generateGymWarmups(firstSet, roundingStep, isHeavy, bar, offsetKg) ==
    IF firstSet = 0 \/ isNaN(firstSet) THEN <<>>
    ELSE LET lastWU == lastWUOf(firstSet, roundingStep, bar, offsetKg)
             s1     == s1Of(firstSet, roundingStep, bar)
             s2     == s2Of(firstSet, roundingStep, bar)
             s3     == s3Of(firstSet, roundingStep, bar, offsetKg)
             seq    == IF isHeavy /\ Less(s3, lastWU)
                       THEN <<Rung(5, s1), Rung(3, s2), Rung(1, s3), Rung(1, lastWU)>>
                       ELSE <<Rung(5, s1), Rung(3, s2), Rung(1, lastWU)>>
         IN  SortByWeight(seq)

\* the ladder of makeWarmupsFromTop
rampLadder == << [reps |-> 5, pct |-> 40], [reps |-> 4, pct |-> 50],
                 [reps |-> 3, pct |-> 60], [reps |-> 2, pct |-> 70] >>

\* makeWarmupsFromTop with Math.floor in place of Math.round
makeWarmupsFromTop_Floor(top, step) ==
    IF top = 0 \/ isNaN(top) \/ isNaN(step) \/ step = 0 THEN <<>>
    ELSE [i \in 1..Len(rampLadder) |->
             Rung(rampLadder[i].reps,
                  FloorDiv(top * rampLadder[i].pct, 100 * step) * step)]

\* makeWarmupsFromTop (percentage-ramp policy)
makeWarmupsFromTop(top, step) ==
    IF top = 0 \/ isNaN(top) THEN <<>>
    ELSE [i \in 1..Len(rampLadder) |->
             Rung(rampLadder[i].reps, roundToQ(top * rampLadder[i].pct, 100, step))]

---------------------------------------------------------------------------
(* Plate breakdown.  The total, the bar, the per-side load and the plates
   are in ten-thousandths of a kilogram (20 kg is 200000), so that a load
   with a fourth decimal and its rounding to three decimals can be told
   apart.  The totals and bars used differ by an even number of units, and
   no remainder lies half-way between two thousandths. *)

\* the plates 25, 20, 15, 10, 5, 2.5, 1.25
Plates == <<250000, 200000, 150000, 100000, 50000, 25000, 12500>>

\* +(x).toFixed(3), x >= 0: the nearest thousandth
ToFixed3(x) == FloorDiv(x + 5, 10) * 10

PlateCount(c, p) == [count |-> c, plate |-> p]

\* (total - bar) / 2
perSideOf(total, bar) ==
    IF isNaN(total) \/ isNaN(bar) THEN NaN ELSE FloorDiv(total - bar, 2)

\* the loop of plateBreakdown keeping the entries of count 0
RECURSIVE platesFrom_KeepZero(_, _)
platesFrom_KeepZero(i, rem) ==
    IF i > Len(Plates) THEN <<>>
    ELSE LET count == FloorDiv(rem, Plates[i])
         IN  IF count >= 0
             THEN <<PlateCount(count, Plates[i])>>
                  \o platesFrom_KeepZero(i + 1, ToFixed3(rem - count * Plates[i]))
             ELSE platesFrom_KeepZero(i + 1, rem)

\* the loop of plateBreakdown without the update of rem
RECURSIVE platesFrom_NoCarry(_, _)
platesFrom_NoCarry(i, rem) ==
    IF i > Len(Plates) THEN <<>>
    ELSE LET count == FloorDiv(rem, Plates[i])
         IN  IF count > 0
             THEN <<PlateCount(count, Plates[i])>> \o platesFrom_NoCarry(i + 1, rem)
             ELSE platesFrom_NoCarry(i + 1, rem)

\* the loop of plateBreakdown from plate i on, rem left to load
RECURSIVE platesFrom(_, _)
platesFrom(i, rem) ==
    IF i > Len(Plates) THEN <<>>
    ELSE LET count == FloorDiv(rem, Plates[i])
         IN  IF count > 0
             THEN <<PlateCount(count, Plates[i])>>
                  \o platesFrom(i + 1, ToFixed3(rem - count * Plates[i]))
             ELSE platesFrom(i + 1, rem)

plateBreakdown_KeepZero(total, bar) ==
    LET perSide == perSideOf(total, bar)
    IN  IF isNaN(perSide) THEN <<>>
        ELSE IF perSide <= 0 THEN <<>>
        ELSE platesFrom_KeepZero(1, perSide)

plateBreakdown_NoCarry(total, bar) ==
    LET perSide == perSideOf(total, bar)
    IN  IF isNaN(perSide) THEN <<>>
        ELSE IF perSide <= 0 THEN <<>>
        ELSE platesFrom_NoCarry(1, perSide)

\* plateBreakdown(total, bar); with a NaN load no comparison holds, neither
\* perSide <= 0 nor count > 0, and nothing is pushed
plateBreakdown(total, bar) ==
    LET perSide == perSideOf(total, bar)
    IN  IF isNaN(perSide) THEN <<>>
        ELSE IF perSide <= 0 THEN <<>>
        ELSE platesFrom(1, perSide)

---------------------------------------------------------------------------
(* Input values of the model *)

\* the longest weight list typed, in weights
MaxWeights == 3
\* the largest set count typed as "N x 6"
MaxSets == 4
\* the heaviest single weight typed in a warm-up session, in steps of 2.5 kg
MaxLoadSteps == 28

Lifts == {"Squat", "Bench", "Deadlift"}
Modes == {"kg", "percent"}

\* parseFloat of the rounding field: cleared, or 2.5 or 5
RoundingValues == {NaN, 250, 500}
\* parseFloat of the bar field: cleared, no bar, a technique bar, 20 kg
BarValues == {NaN, 0, 1000, 2000}
\* parseFloat(value) || 7.5 of the offset field: under 5, 7.5, over 10
OffsetValues == {250, 750, 1200}

\* parseFloat of an increment field after an edit: cleared, or -3.75
IncValues == {NaN, 0 - 375}
\* the fields of an increment table that are edited
EditedKeys == {"solid", "missed"}

DigitChar(d) ==
    CASE d = 0 -> "0" [] d = 1 -> "1" [] d = 2 -> "2" [] d = 3 -> "3"
      [] d = 4 -> "4" [] d = 5 -> "5" [] d = 6 -> "6" [] d = 7 -> "7"
      [] d = 8 -> "8" [] d = 9 -> "9"

RECURSIVE NatText(_)
NatText(n) ==
    IF n < 10 THEN <<DigitChar(n)>>
    ELSE Append(NatText(n \div 10), DigitChar(n % 10))

\* the text a user types for h hundredths, h >= 0: "62.5", "60", "1.25"
DecimalText(h) ==
    LET f == h % 100
    IN  NatText(h \div 100) \o
        ( IF f = 0 THEN <<>>
          ELSE IF f % 10 = 0 THEN <<".", DigitChar(f \div 10)>>
          ELSE <<".", DigitChar(f \div 10), DigitChar(f % 10)>> )

RECURSIVE Join(_)
Join(ts) ==
    IF ts = <<>> THEN <<>>
    ELSE IF Len(ts) = 1 THEN ts[1]
    ELSE ts[1] \o <<",", " ">> \o Join(Tail(ts))

\* the text "5x30, 4x40, 3x50" of a manual scheme field
SchemeDefault(r1, w1, r2, w2, r3, w3) ==
    Join(<< NatText(r1) \o <<"x">> \o DecimalText(w1),
            NatText(r2) \o <<"x">> \o DecimalText(w2),
            NatText(r3) \o <<"x">> \o DecimalText(w3) >>)

\* the weight texts of a quick-mode session: empty, or a run of consecutive
\* weights of the ladder 60, 62.5, 65, ... joined by ", "
WeightTexts ==
    { <<>> } \cup
    { Join([k \in 1..n |-> DecimalText(6000 + 250 * (i + k - 2))]) :
        i \in 1..MaxWeights, n \in 1..MaxWeights } 

\* the weight texts of a warm-up session: empty, or one weight
LoadTexts == { <<>> } \cup { DecimalText(250 * k) : k \in 0..MaxLoadSteps }

\* the rep-pattern texts: "Nx6", "2 X 5", a dash and a comma list, and junk
PatternTexts ==
    { NatText(n) \o <<"x", "6">> : n \in 0..MaxSets }
    \cup { <<"2", " ", "X", " ", "5">>, <<"6", "-", "6", "-", "6">>,
           <<"5", ",", "3">>, <<>>, <<"3", " ", "s", "e", "t", "s">> }

\* the largest set count typed in a pattern session
MaxPatternSets == 10
\* the longest rep list typed in a pattern session
MaxListLen == 3

\* the rep counts typed in a pattern session
PatternReps == {0, 6, 12}
\* the white space typed around a text
Gaps == { <<>>, <<" ">> }
\* the white space typed before the x of a pattern, after it, and around the
\* text
GapStyles ==
    { << <<>>, <<>>, <<>> >>, << <<" ">>, <<>>, <<>> >>,
      << <<>>, <<" ">>, <<" ">> >>, << <<" ">>, <<" ">>, <<" ">> >> }
\* the separators of a rep list
ListSeparators == { <<"-">>, <<",">>, <<",", " ">>, <<" ", "-", " ">> }

\* the text "N x R" typed with the white space g
SetsByRepsText(n, r, x, g) ==
    g[3] \o NatText(n) \o g[1] \o <<x>> \o g[2] \o NatText(r) \o g[3]

\* the words ws joined by the separator sep
RECURSIVE JoinWith(_, _)
JoinWith(ws, sep) ==
    IF ws = <<>> THEN <<>>
    ELSE IF Len(ws) = 1 THEN ws[1]
    ELSE ws[1] \o sep \o JoinWith(Tail(ws), sep)

\* the text of the rep list rs
RepListText(rs, sep, pad) ==
    pad \o JoinWith([i \in 1..Len(rs) |-> NatText(rs[i])], sep) \o pad

\* the rep lists of at most n entries
RECURSIVE RepLists(_)
RepLists(n) ==
    IF n = 0 THEN { <<>> }
    ELSE RepLists(n - 1) \cup
         { Append(rs, r) : rs \in { l \in RepLists(n - 1) : Len(l) = n - 1 },
                           r \in {0, 12} }

\* words that are neither an integer nor, with another token beside them, a
\* pattern: "a", "3 sets", "5x", "x6", "1.5", "3x6x", "3 6", "3x6"
JunkWords ==
    { <<"a">>, <<"3", " ", "s", "e", "t", "s">>, <<"5", "x">>, <<"x", "6">>,
      <<"1", ".", "5">>, <<"3", "x", "6", "x">>, <<"3", " ", "6">>,
      <<"3", "x", "6">> }

\* texts that are neither "N x R" nor a list of integers: nothing, white
\* space, separators alone, a junk word alone (but for "3x6") or in a list
\* with an integer
JunkTexts ==
    { <<>>, <<" ">>, <<"-">>, <<",", " ", ",">> }
    \cup (JunkWords \ { <<"3", "x", "6">> })
    \cup { JoinWith(<<w, <<"5">>>>, sep) : w \in JunkWords, sep \in { <<"-">>, <<",", " ">> } }
    \cup { JoinWith(<<<<"5">>, w>>, sep) : w \in JunkWords, sep \in { <<"-">>, <<",", " ">> } }

SetsByRepsTexts ==
    { SetsByRepsText(n, r, x, g) :
        n \in 0..MaxPatternSets, r \in PatternReps, x \in {"x", "X"}, g \in GapStyles }

RepListTexts ==
    { RepListText(rs, sep, pad) :
        rs \in RepLists(MaxListLen) \ { <<>> }, sep \in ListSeparators, pad \in Gaps }

---------------------------------------------------------------------------
(* Warm-up presets (part_001) *)

\* the preset styles of part_001: rungs of reps and a percentage num / den;
\* the first rung of "Bar-30-50-70" is (barWeight / base) * 100
presetStyle(style, bar, base) ==
    IF style = "30-40-50"
    THEN << [reps |-> 5, num |-> 30, den |-> 1], [reps |-> 4, num |-> 40, den |-> 1],
            [reps |-> 3, num |-> 50, den |-> 1] >>
    ELSE IF style = "Bar-30-50-70"
    THEN << [reps |-> 8, num |-> Times(bar, 100), den |-> base],
            [reps |-> 5, num |-> 30, den |-> 1], [reps |-> 3, num |-> 50, den |-> 1],
            [reps |-> 1, num |-> 70, den |-> 1] >>
    ELSE << [reps |-> 5, num |-> 40, den |-> 1], [reps |-> 4, num |-> 50, den |-> 1],
            [reps |-> 3, num |-> 60, den |-> 1], [reps |-> 2, num |-> 70, den |-> 1] >>

\* `${Math.max(0, Math.round(pct))}` for pct = num / den: a division by a
\* NaN, or 0 / 0, prints NaN, a positive number over 0 prints Infinity
PctText(num, den) ==
    IF isNaN(num) \/ isNaN(den) \/ (num = 0 /\ den = 0) THEN <<"N", "a", "N">>
    ELSE IF den = 0
    THEN IF num > 0 THEN <<"I", "n", "f", "i", "n", "i", "t", "y">> ELSE <<"0">>
    ELSE LET r == IF den > 0 THEN MathRound(num, den) ELSE MathRound(0 - num, 0 - den)
         IN  NatText(IF r < 0 THEN 0 ELSE r)

\* `${s.reps}x${...}%`
RungText(s) == NatText(s.reps) \o <<"x">> \o PctText(s.num, s.den) \o <<"%">>

\* the text generateWarmups(style) puts in the warm-up field:
\* seq.map(...).join(", ")
generateWarmups(style, bar, base) ==
    LET seq == presetStyle(style, bar, base)
    IN  JoinWith([i \in 1..Len(seq) |-> RungText(seq[i])], <<",", " ">>)

---------------------------------------------------------------------------
(* The component: state, render, handlers *)

\* RenderManual with the rows not depending on baseForPercent
RenderManual_StaleBase ==
    \* baseForPercent of the new render
    LET base == baseOf(heaviestOf(suggestedWeights'), firstWorkingOf(suggestedWeights'))
    IN
    /\ warmParsed' =
          IF warmupInput' # warmupInput THEN parseScheme(warmupInput')
          ELSE warmParsed
    /\ workParsed' =
          IF workInput' # workInput THEN parseScheme(workInput')
          ELSE workParsed
    /\ warmRows' =
          IF warmupInput' # warmupInput \/ rounding' # rounding
          THEN calcRows(warmParsed', base, rounding')
          ELSE warmRows
    /\ workRows' =
          IF workInput' # workInput \/ rounding' # rounding
          THEN calcRows(workParsed', base, rounding')
          ELSE workRows

\* The useMemo values of the manual scheme in one render pass, after the
\* suggested weights of the pass are known.
RenderManual ==
    \* baseForPercent of the new render
    LET base == baseOf(heaviestOf(suggestedWeights'), firstWorkingOf(suggestedWeights'))
    IN
    /\ warmParsed' =
          IF warmupInput' # warmupInput THEN parseScheme(warmupInput')
          ELSE warmParsed
    /\ workParsed' =
          IF workInput' # workInput THEN parseScheme(workInput')
          ELSE workParsed
    /\ warmRows' =
          IF warmupInput' # warmupInput \/ base # baseForPercent
             \/ rounding' # rounding
          THEN calcRows(warmParsed', base, rounding')
          ELSE warmRows
    /\ workRows' =
          IF workInput' # workInput \/ base # baseForPercent
             \/ rounding' # rounding
          THEN calcRows(workParsed', base, rounding')
          ELSE workRows

\* One render pass: every useMemo whose dependencies changed is recomputed
\* from the new inputs, the others keep their value.  A parsed list is a new
\* array whenever its text changed.
Rerender ==
    LET patternChanged == quickRepsPattern' # quickRepsPattern
        weightsChanged == lastWeekWeights' # lastWeekWeights
    IN  /\ quickParsed' =
              IF patternChanged THEN parseSetsPattern(quickRepsPattern')
              ELSE quickParsed
        /\ lastWeights' =
              IF weightsChanged THEN parseLastWeights(lastWeekWeights')
              ELSE lastWeights
        /\ suggestionDelta' =
              IF weightsChanged
                 \/ <<progressionMode', kgInc', pctInc', felt', rounding'>>
                      # <<progressionMode, kgInc, pctInc, felt, rounding>>
              THEN computeSuggestionDelta(progressionMode', kgInc', pctInc',
                                          felt', lastWeights', rounding')
              ELSE suggestionDelta
        /\ suggestedWeights' =
              IF patternChanged \/ weightsChanged
                 \/ suggestionDelta' # suggestionDelta \/ rounding' # rounding
              THEN computeSuggestedWeights(quickParsed', lastWeights',
                                           suggestionDelta', rounding')
              ELSE suggestedWeights
        /\ autoWarmups' =
              IF <<firstWorking', rounding', superHeavy', barWeight', wuOffset'>>
                   # <<firstWorking, rounding, superHeavy, barWeight, wuOffset>>
              THEN generateGymWarmups(firstWorking', rounding', superHeavy',
                                      barWeight', wuOffset')
              ELSE autoWarmups
        /\ topSuggested' =
              IF patternChanged \/ weightsChanged
                 \/ suggestionDelta' # suggestionDelta \/ rounding' # rounding
              THEN heaviestOf(suggestedWeights')
              ELSE topSuggested
        /\ rampWarmups' =
              IF topSuggested' # topSuggested \/ rounding' # rounding
              THEN makeWarmupsFromTop(topSuggested', rounding')
              ELSE rampWarmups
        /\ RenderManual

\* the component after mounting: the useState defaults, rendered
Mounted ==
    /\ lift = "Squat"
    /\ barWeight = 2000
    /\ rounding = 250
    /\ quickRepsPattern = <<"3", "x", "6">>
    /\ lastWeekWeights = Join(<<DecimalText(6000), DecimalText(6250), DecimalText(6500)>>)
    /\ felt = "solid"
    /\ progressionMode = "kg"
    /\ kgInc = defaultKgIncrements("Squat")
    /\ pctInc = defaultPctIncrements
    /\ wuOffset = 750
    /\ superHeavy = FALSE
    /\ quickParsed = parseSetsPattern(quickRepsPattern)
    /\ lastWeights = parseLastWeights(lastWeekWeights)
    /\ suggestionDelta = computeSuggestionDelta(progressionMode, kgInc, pctInc,
                                                felt, lastWeights, rounding)
    /\ suggestedWeights = computeSuggestedWeights(quickParsed, lastWeights,
                                                  suggestionDelta, rounding)
    /\ autoWarmups = generateGymWarmups(firstWorkingOf(suggestedWeights), rounding,
                                        superHeavy, barWeight, wuOffset)
    /\ topSuggested = heaviestOf(suggestedWeights)
    /\ rampWarmups = makeWarmupsFromTop(topSuggested, rounding)
    /\ warmupInput = SchemeDefault(5, 3000, 4, 4000, 3, 5000)
    /\ workInput = SchemeDefault(6, 5500, 6, 6000, 6, 6500)
    /\ warmParsed = parseScheme(warmupInput)
    /\ workParsed = parseScheme(workInput)
    /\ warmRows = calcRows(warmParsed, baseForPercent, rounding)
    /\ workRows = calcRows(workParsed, baseForPercent, rounding)
    /\ effectPending = FALSE

\* the state after mounting; no helper is called on its own
Init ==
    /\ Mounted
    /\ call = <<>>
    /\ ret = <<>>

\* onChange of the lift select: the render that follows still holds the
\* old kgInc; the reset effect is queued behind it.
SetLift(l) ==
    /\ ~effectPending
    /\ l # lift
    /\ lift' = l
    /\ UNCHANGED << barWeight, rounding, quickRepsPattern, lastWeekWeights, felt,
                    progressionMode, kgInc, pctInc, wuOffset, superHeavy >>
    /\ UNCHANGED manual
    /\ Rerender
    /\ effectPending' = TRUE
    /\ UNCHANGED helper

\* useEffect(() => setKgInc(defaultKgIncrements), [defaultKgIncrements])
ResetKgInc ==
    /\ effectPending
    /\ kgInc' = defaultKgIncrements(lift)
    /\ UNCHANGED << lift, barWeight, rounding, quickRepsPattern, lastWeekWeights,
                    felt, progressionMode, pctInc, wuOffset, superHeavy >>
    /\ UNCHANGED manual
    /\ Rerender
    /\ effectPending' = FALSE
    /\ UNCHANGED helper

SetBarWeight(v) ==
    /\ ~effectPending
    /\ barWeight' = v
    /\ UNCHANGED << lift, rounding, quickRepsPattern, lastWeekWeights, felt,
                    progressionMode, kgInc, pctInc, wuOffset, superHeavy >>
    /\ UNCHANGED manual
    /\ Rerender
    /\ UNCHANGED << effectPending, helper >>

SetRounding(v) ==
    /\ ~effectPending
    /\ rounding' = v
    /\ UNCHANGED << lift, barWeight, quickRepsPattern, lastWeekWeights, felt,
                    progressionMode, kgInc, pctInc, wuOffset, superHeavy >>
    /\ UNCHANGED manual
    /\ Rerender
    /\ UNCHANGED << effectPending, helper >>

SetQuickRepsPattern(t) ==
    /\ ~effectPending
    /\ quickRepsPattern' = t
    /\ UNCHANGED << lift, barWeight, rounding, lastWeekWeights, felt,
                    progressionMode, kgInc, pctInc, wuOffset, superHeavy >>
    /\ UNCHANGED manual
    /\ Rerender
    /\ UNCHANGED << effectPending, helper >>

SetLastWeekWeights(t) ==
    /\ ~effectPending
    /\ lastWeekWeights' = t
    /\ UNCHANGED << lift, barWeight, rounding, quickRepsPattern, felt,
                    progressionMode, kgInc, pctInc, wuOffset, superHeavy >>
    /\ UNCHANGED manual
    /\ Rerender
    /\ UNCHANGED << effectPending, helper >>

SetFelt(k) ==
    /\ ~effectPending
    /\ felt' = k
    /\ UNCHANGED << lift, barWeight, rounding, quickRepsPattern, lastWeekWeights,
                    progressionMode, kgInc, pctInc, wuOffset, superHeavy >>
    /\ UNCHANGED manual
    /\ Rerender
    /\ UNCHANGED << effectPending, helper >>

SetProgressionMode(m) ==
    /\ ~effectPending
    /\ progressionMode' = m
    /\ UNCHANGED << lift, barWeight, rounding, quickRepsPattern, lastWeekWeights,
                    felt, kgInc, pctInc, wuOffset, superHeavy >>
    /\ UNCHANGED manual
    /\ Rerender
    /\ UNCHANGED << effectPending, helper >>

SetWuOffset(v) ==
    /\ ~effectPending
    /\ wuOffset' = v
    /\ UNCHANGED << lift, barWeight, rounding, quickRepsPattern, lastWeekWeights,
                    felt, progressionMode, kgInc, pctInc, superHeavy >>
    /\ UNCHANGED manual
    /\ Rerender
    /\ UNCHANGED << effectPending, helper >>

SetSuperHeavy(b) ==
    /\ ~effectPending
    /\ superHeavy' = b
    /\ UNCHANGED << lift, barWeight, rounding, quickRepsPattern, lastWeekWeights,
                    felt, progressionMode, kgInc, pctInc, wuOffset >>
    /\ UNCHANGED manual
    /\ Rerender
    /\ UNCHANGED << effectPending, helper >>

\* onChange of a field of the kg table
SetKgInc(k, v) ==
    /\ ~effectPending
    /\ kgInc' = [kgInc EXCEPT ![k] = v]
    /\ UNCHANGED << lift, barWeight, rounding, quickRepsPattern, lastWeekWeights,
                    felt, progressionMode, pctInc, wuOffset, superHeavy >>
    /\ UNCHANGED manual
    /\ Rerender
    /\ UNCHANGED << effectPending, helper >>

\* onChange of a field of the percentage table
SetPctInc(k, v) ==
    /\ ~effectPending
    /\ pctInc' = [pctInc EXCEPT ![k] = v]
    /\ UNCHANGED << lift, barWeight, rounding, quickRepsPattern, lastWeekWeights,
                    felt, progressionMode, kgInc, wuOffset, superHeavy >>
    /\ UNCHANGED manual
    /\ Rerender
    /\ UNCHANGED << effectPending, helper >>

\* onChange of the warm-up scheme text
SetWarmupInput(t) ==
    /\ ~effectPending
    /\ warmupInput' = t
    /\ UNCHANGED << lift, barWeight, rounding, quickRepsPattern, lastWeekWeights,
                    felt, progressionMode, kgInc, pctInc, wuOffset, superHeavy,
                    workInput >>
    /\ Rerender
    /\ UNCHANGED << effectPending, helper >>

\* onChange of the working-set scheme text
SetWorkInput(t) ==
    /\ ~effectPending
    /\ workInput' = t
    /\ UNCHANGED << lift, barWeight, rounding, quickRepsPattern, lastWeekWeights,
                    felt, progressionMode, kgInc, pctInc, wuOffset, superHeavy,
                    warmupInput >>
    /\ Rerender
    /\ UNCHANGED << effectPending, helper >>

\* A quick-mode session: the lift, the pattern, the weights, the felt tag,
\* the progression mode and the rounding step change.
Next ==
    \/ \E l \in Lifts : SetLift(l)
    \/ ResetKgInc
    \/ \E t \in PatternTexts : SetQuickRepsPattern(t)
    \/ \E t \in WeightTexts : SetLastWeekWeights(t)
    \/ \E i \in 1..Len(Felts) : SetFelt(Felts[i])
    \/ \E m \in Modes : SetProgressionMode(m)
    \/ \E v \in RoundingValues : SetRounding(v)

Spec == Init /\ [][Next]_vars

\* A warm-up session: one weight, the felt tag, the rounding step, the bar,
\* the offset and the heavy flag change.
NextWarmup ==
    \/ \E t \in LoadTexts : SetLastWeekWeights(t)
    \/ \E i \in 1..Len(Felts) : SetFelt(Felts[i])
    \/ \E v \in RoundingValues : SetRounding(v)
    \/ \E v \in BarValues : SetBarWeight(v)
    \/ \E v \in OffsetValues : SetWuOffset(v)
    \/ \E b \in BOOLEAN : SetSuperHeavy(b)

SpecWarmup == Init /\ [][NextWarmup]_vars

\* An increment-table session: the lift, the tables, the felt tag, the
\* progression mode and the rounding step change.
NextTable ==
    \/ \E l \in Lifts : SetLift(l)
    \/ ResetKgInc
    \/ \E k \in EditedKeys, v \in IncValues : SetKgInc(k, v)
    \/ \E k \in EditedKeys, v \in IncValues : SetPctInc(k, v)
    \/ \E i \in 1..Len(Felts) : SetFelt(Felts[i])
    \/ \E m \in Modes : SetProgressionMode(m)
    \/ \E v \in RoundingValues : SetRounding(v)

SpecTable == Init /\ [][NextTable]_vars

\* A whole-page session: every field of the page changes, each between two
\* values (the lift among three): the bar 10 or 20, the step 2.5 or 5, the
\* pattern "3x6" or empty, the weights "60, 62.5, 65" or "0, -5, abc", the
\* felt tag solid or missed, "missed" of either table edited to -3.75, the
\* offset 7.5 or 12, the schemes "5x30, 4x40, 3x50" or "5x30, 4x40%" and
\* "6x55, 6x60, 6x65" or "abc, 6@100%".
NextPage ==
    \/ \E l \in Lifts : SetLift(l)
    \/ ResetKgInc
    \/ \E v \in {1000, 2000} : SetBarWeight(v)
    \/ \E v \in {250, 500} : SetRounding(v)
    \/ \E t \in { <<"3", "x", "6">>, <<>> } : SetQuickRepsPattern(t)
    \/ \E t \in { Join(<<DecimalText(6000), DecimalText(6250), DecimalText(6500)>>),
                  Join(<< <<"0">>, <<"-", "5">>, <<"a", "b", "c">> >>) } :
          SetLastWeekWeights(t)
    \/ \E k \in {"solid", "missed"} : SetFelt(k)
    \/ \E m \in Modes : SetProgressionMode(m)
    \/ SetKgInc("missed", 0 - 375)
    \/ SetPctInc("missed", 0 - 375)
    \/ \E v \in {750, 1200} : SetWuOffset(v)
    \/ \E b \in BOOLEAN : SetSuperHeavy(b)
    \/ \E t \in { SchemeDefault(5, 3000, 4, 4000, 3, 5000),
                  Join(<< <<"5", "x", "3", "0">>, <<"4", "x", "4", "0", "%">> >>) } :
          SetWarmupInput(t)
    \/ \E t \in { SchemeDefault(6, 5500, 6, 6000, 6, 6500),
                  Join(<< <<"a", "b", "c">>, <<"6", "@", "1", "0", "0", "%">> >>) } :
          SetWorkInput(t)

SpecPage == Init /\ [][NextPage]_vars

\* A pattern session: the rep pattern is retyped.
NextPattern ==
    \E t \in SetsByRepsTexts \cup RepListTexts \cup JunkTexts : SetQuickRepsPattern(t)

SpecPattern == Init /\ [][NextPattern]_vars

---------------------------------------------------------------------------
(* Helpers called on their own *)

\* the largest |x| of the small values rounded, in eighths of a kilogram
MaxEighths == 24
\* the large values rounded are 2^49 + j and 2^52 + j, j up to MaxBigOffset
MaxBigOffset == 3

\* the double n * 2^e, |n| < 2^31
Scaled64(n, e) ==
    IF n = 0 THEN Zero64
    ELSE IF n < 0 THEN Canon64(TRUE, BFromInt(0 - n), e)
    ELSE Canon64(FALSE, BFromInt(n), e)

Int64(n) == Scaled64(n, 0)

\* the values rounded: every eighth up to MaxEighths / 8 of either sign (the
\* half-way values of every step among them), the decimals 0.1 and 61.2, and
\* integers at 2^49 and 2^52
RoundToValues ==
    { Scaled64(n, 0 - 3) : n \in (0 - MaxEighths)..MaxEighths }
    \cup { Fl64(ng, BFromInt(n), 100, 0) : ng \in BOOLEAN, n \in {10, 6120} }
    \cup { Fl64(ng, BAdd(BShl(<<1>>, p), BFromInt(j)), 1, 0) :
              ng \in BOOLEAN, p \in {49, 52}, j \in 0..MaxBigOffset }

\* the steps: 0.25, 1.25, 2.5, 5
RoundToSteps == { Scaled64(1, 0 - 2), Scaled64(5, 0 - 2), Scaled64(5, 0 - 1), Int64(5) }

InitRoundTo ==
    /\ Mounted
    /\ call \in [fn : {"roundTo"}, val : RoundToValues, step : RoundToSteps]
    /\ ret = <<>>

\* roundTo(val, step)
CallRoundTo ==
    /\ call.fn = "roundTo"
    /\ ret = <<>>
    /\ ret' = <<roundTo64(call.val, call.step)>>
    /\ UNCHANGED << inputs, memos, effectPending, call >>

\* roundTo(roundTo(val, step), step)
CallRoundToAgain ==
    /\ call.fn = "roundTo"
    /\ Len(ret) = 1
    /\ ret' = Append(ret, roundTo64(ret[1], call.step))
    /\ UNCHANGED << inputs, memos, effectPending, call >>

NextRoundTo == CallRoundTo \/ CallRoundToAgain

SpecRoundTo == InitRoundTo /\ [][NextRoundTo]_vars

\* the heaviest total broken down, in steps of 1.25 kg
MaxTotalSteps == 96

\* the totals: a row weight may be NaN, negative, or any multiple of 1.25
PlateTotals == {NaN} \cup { 12500 * k : k \in (0 - 2)..MaxTotalSteps }
\* the bars: cleared, none, 7.5, 20, and 19.9992 and 20.0008 typed
PlateBars == {NaN, 0, 75000, 200000, 199992, 200008}

InitPlates ==
    /\ Mounted
    /\ call \in [fn : {"plateBreakdown"}, total : PlateTotals, bar : PlateBars]
    /\ ret = <<>>

\* plateBreakdown(total, bar)
CallPlateBreakdown ==
    /\ call.fn = "plateBreakdown"
    /\ ret = <<>>
    /\ ret' = <<plateBreakdown(call.total, call.bar)>>
    /\ UNCHANGED << inputs, memos, effectPending, call >>

NextPlates == CallPlateBreakdown

SpecPlates == InitPlates /\ [][NextPlates]_vars

\* the longest manual scheme typed, in tokens
MaxTokens == 2

\* what is typed for a token: reps, the letter, white space around it, the
\* number in hundredths, a percent sign or none; or a word that is no token
TypedTokens ==
    { [ok |-> TRUE, reps |-> 5,  op |-> "x", gap |-> <<>>,    value |-> 3000, pct |-> FALSE],
      [ok |-> TRUE, reps |-> 12, op |-> "X", gap |-> <<" ">>, value |-> 6250, pct |-> FALSE],
      [ok |-> TRUE, reps |-> 5,  op |-> "@", gap |-> <<>>,    value |-> 7500, pct |-> TRUE],
      [ok |-> TRUE, reps |-> 3,  op |-> "x", gap |-> <<" ">>, value |-> 8250, pct |-> TRUE] }
    \cup { [ok |-> FALSE, word |-> w] :
             w \in { <<"a", "b", "c">>, <<"5", "x">>, <<"x", "3", "0">>,
                     <<"5", "x", "3", "0", "k", "g">>, <<"5", "x", "3", "0", ".">> } }

\* the text of a typed token: "5x30", "12 X 62.5", "5@75%", "3 x 82.5 %"
TokenText(d) ==
    IF d.ok
    THEN NatText(d.reps) \o d.gap \o <<d.op>> \o d.gap \o DecimalText(d.value)
         \o (IF d.pct THEN d.gap \o <<"%">> ELSE <<>>)
    ELSE d.word

\* the lists of at most n typed tokens
RECURSIVE TypedLists(_)
TypedLists(n) ==
    IF n = 0 THEN { <<>> }
    ELSE TypedLists(n - 1) \cup
         { Append(l, d) : l \in { k \in TypedLists(n - 1) : Len(k) = n - 1 },
                          d \in TypedTokens }

\* the separators typed between tokens
SchemeSeparators == { <<",">>, <<",", " ">>, <<"\n">> }

\* the text of a typed list
SchemeText(l, sep) == JoinWith([i \in 1..Len(l) |-> TokenText(l[i])], sep)

\* call.typed records what was typed; parseScheme is given the text only
InitScheme ==
    /\ Mounted
    /\ call \in { [fn |-> "parseScheme", typed |-> l, input |-> SchemeText(l, sep)] :
                    l \in TypedLists(MaxTokens), sep \in SchemeSeparators }
    /\ ret = <<>>

\* parseScheme(input)
CallParseScheme ==
    /\ call.fn = "parseScheme"
    /\ ret = <<>>
    /\ ret' = <<parseScheme(call.input)>>
    /\ UNCHANGED << inputs, memos, effectPending, call >>

NextScheme == CallParseScheme

SpecScheme == InitScheme /\ [][NextScheme]_vars

\* the schemes resolved: what parseScheme gives for the typed lists
RowSchemes ==
    { parseScheme(SchemeText(l, <<",", " ">>)) : l \in TypedLists(MaxTokens) }
\* the bases: a cleared field, -80 typed as top set, 60, 80
RowBases == {NaN, 0 - 8000, 6000, 8000}

InitRows ==
    /\ Mounted
    /\ call \in [fn : {"calcRows"}, scheme : RowSchemes, base : RowBases,
                  rounding : RoundingValues]
               \cup [fn : {"calcRowsMinLoad"}, scheme : RowSchemes, base : RowBases,
                     rounding : RoundingValues, minLoad : {0}]
    /\ ret = <<>>

\* calcRows({ scheme, base, rounding })
CallCalcRows ==
    /\ call.fn = "calcRows"
    /\ ret = <<>>
    /\ ret' = <<calcRows(call.scheme, call.base, call.rounding)>>
    /\ UNCHANGED << inputs, memos, effectPending, call >>

\* calcRows({ scheme, base, rounding, minLoad: 0 })
CallCalcRowsMinLoad ==
    /\ call.fn = "calcRowsMinLoad"
    /\ ret = <<>>
    /\ ret' = <<calcRowsMinLoad(call.scheme, call.base, call.rounding, call.minLoad)>>
    /\ UNCHANGED << inputs, memos, effectPending, call >>

NextRows == CallCalcRows \/ CallCalcRowsMinLoad

SpecRows == InitRows /\ [][NextRows]_vars

\* the preset buttons; the bar: cleared, none, 10, 20; the training max or
\* top set: cleared, 0, -80 typed, 60, 72, 80
InitPresets ==
    /\ Mounted
    /\ call \in [fn : {"generateWarmups"},
                  style : {"30-40-50", "40-50-60-70", "Bar-30-50-70"},
                  barWeight : {NaN, 0, 1000, 2000},
                  base : {NaN, 0, 0 - 8000, 6000, 7200, 8000}]
    /\ ret = <<>>

\* generateWarmups(style): the text set as warmupInput
CallGenerateWarmups ==
    /\ call.fn = "generateWarmups"
    /\ ret = <<>>
    /\ ret' = <<generateWarmups(call.style, call.barWeight, call.base)>>
    /\ UNCHANGED << inputs, memos, effectPending, call >>

\* the render that follows: warmParsed = parseScheme(warmupInput)
ParsePreset ==
    /\ call.fn = "generateWarmups"
    /\ Len(ret) = 1
    /\ ret' = Append(ret, parseScheme(ret[1]))
    /\ UNCHANGED << inputs, memos, effectPending, call >>

NextPresets == CallGenerateWarmups \/ ParsePreset

SpecPresets == InitPresets /\ [][NextPresets]_vars

---------------------------------------------------------------------------
(* Properties *)

\* the base weight of set i: the i-th last weight, else the last one, else 0
BaseAt(i) ==
    IF i <= Len(lastWeights) THEN lastWeights[i]
    ELSE IF lastWeights # <<>> THEN lastWeights[Len(lastWeights)]
    ELSE 0

\* the weights of a ramp never decrease
Ascending(r) ==
    \A i \in 1..(Len(r) - 1) :
        ~isNaN(r[i].weight) /\ ~isNaN(r[i + 1].weight) /\ r[i].weight <= r[i + 1].weight

\* r holds exactly the rungs of t, in some order
Arrangement(r, t) ==
    /\ Len(r) = Len(t)
    /\ \E p \in [1..Len(t) -> 1..Len(t)] :
          /\ \A i, j \in 1..Len(t) : p[i] = p[j] => i = j
          /\ \A i \in 1..Len(t) : r[i] = t[p[i]]

\* the weights the offset policy is specified to use, from the current inputs
SpecOffset == MathMax(500, MathMin(1000, wuOffset))
SpecLastWU == roundTo(MathMax(barWeight, firstWorking - SpecOffset), rounding)
SpecS1 == roundToQ(MathMax(Times(barWeight, 100), 40 * firstWorking), 100, rounding)
SpecS2 == roundToQ(MathMax(Times(barWeight, 100), 60 * firstWorking), 100, rounding)
SpecS3 ==
    roundToQ(MathMin(Times(SpecLastWU, 100),
                     MathMax(Times(barWeight, 100), 82 * firstWorking)), 100, rounding)

\* C1: in kg mode, when the weight list has as many entries as the pattern
\* has sets, suggested weight i is roundTo(lastWeights[i] + kgInc[felt], step);
\* weights 60, 62.5, 65 with an increment of 2.5 and step 2.5 give 62.5, 65, 67.5.
C1_KgSuggestions ==
    (progressionMode = "kg" /\ Len(lastWeights) = quickParsed.sets) =>
        /\ Len(suggestedWeights) = Len(lastWeights)
        /\ \A i \in 1..Len(lastWeights) :
              suggestedWeights[i] = roundTo(Plus(lastWeights[i], kgInc[felt]), rounding)
        /\ (lastWeights = <<6000, 6250, 6500>> /\ kgInc[felt] = 250 /\ rounding = 250)
              => suggestedWeights = <<6250, 6500, 6750>>

\* Bench, missed (-1.25), step 2.5: 58.75, 61.25, 63.75 round back up to the
\* last weights
C1_Witness ==
    /\ progressionMode = "kg" /\ lift = "Bench" /\ ~effectPending /\ felt = "missed"
    /\ rounding = 250 /\ quickParsed.sets = 3
    /\ lastWeights = <<6000, 6250, 6500>>
    /\ suggestedWeights = <<6000, 6250, 6500>>

\* C2: in percentage mode the delta is the one scalar
\* roundTo(mean(lastWeights) * pct[felt] / 100, step), the mean of an empty list
\* being 0, and that delta is added to every base weight before rounding;
\* 60, 62.5, 65 at 2.5 % and step 2.5 give delta 2.5 and 62.5, 65, 67.5.
C2_PercentDelta ==
    progressionMode = "percent" =>
        LET n     == Len(lastWeights)
            delta == IF n = 0 THEN roundToQ(Times(pctInc[felt], 0), 1, rounding)
                     ELSE roundToQ(Times(pctInc[felt], Sum(lastWeights)),
                                   10000 * n, rounding)
        IN  /\ suggestionDelta = delta
            /\ (n = 0 /\ ~isNaN(rounding) /\ rounding > 0) => suggestionDelta = 0
            /\ \A i \in 1..Len(suggestedWeights) :
                  suggestedWeights[i] = roundTo(Plus(BaseAt(i), delta), rounding)
            /\ (lastWeights = <<6000, 6250, 6500>> /\ pctInc[felt] = 250
                  /\ rounding = 250 /\ quickParsed.sets = 3)
                  => (suggestionDelta = 250 /\ suggestedWeights = <<6250, 6500, 6750>>)

\* 5 % of the mean 63.75 of 62.5, 65 is 3.1875, which rounds to 2.5
C2_Witness ==
    /\ progressionMode = "percent" /\ felt = "easy" /\ rounding = 250
    /\ lastWeights = <<6250, 6500>> /\ quickParsed.sets = 4
    /\ suggestionDelta = 250
    /\ suggestedWeights = <<6500, 6750, 6750, 6750>>

\* C3: there are as many suggested sets as the pattern has sets, or as the
\* weight list has entries when the pattern has none; base weight i is
\* lastWeights[i] when present, else the last entry of the list, else 0.
C3_SetCountAndBase ==
    /\ Len(suggestedWeights) =
          (IF quickParsed.sets # 0 THEN quickParsed.sets ELSE Len(lastWeights))
    /\ \A i \in 1..Len(suggestedWeights) :
          suggestedWeights[i] = roundTo(Plus(BaseAt(i), suggestionDelta), rounding)

\* a list of two padded to four sets, and one of three cut to two
C3_Witness ==
    /\ quickParsed.sets = 4 /\ lastWeights = <<6000, 6250>>
    /\ progressionMode = "kg" /\ felt = "hard" /\ rounding = 250
    /\ suggestedWeights = <<6000, 6250, 6250, 6250>>

\* C4, as claimed: a pattern that parses to 0 sets gives no suggested sets,
\* whatever the weight list holds.
C4_NoPatternNoSuggestions ==
    quickParsed.sets = 0 => suggestedWeights = <<>>

\* C4, amended: a pattern that parses to 0 sets gives one suggested set per
\* entry of the weight list, so the display is in the "no suggestions" state
\* exactly when the weight list is empty.
C4_NoPatternFallsBack ==
    quickParsed.sets = 0 =>
        /\ Len(suggestedWeights) = Len(lastWeights)
        /\ (suggestedWeights = <<>>) <=> (lastWeights = <<>>)

C4_Witness ==
    /\ quickRepsPattern = <<"3", " ", "s", "e", "t", "s">>
    /\ quickParsed.sets = 0
    /\ Len(lastWeights) = 2 /\ Len(suggestedWeights) = 2

\* C5: under both policies every rung weighs at most the working weight that
\* drove it: the top suggested weight for the percentage ramp, the first
\* working-set weight for the offset policy.
C5_RungsAtMostWorking ==
    /\ \A i \in 1..Len(rampWarmups) : rampWarmups[i].weight <= topSuggested
    /\ \A i \in 1..Len(autoWarmups) : autoWarmups[i].weight <= firstWorking

\* C6: with a positive rounding step, the ramp of either policy never
\* decreases in weight from its first rung to its last.
C6_RampsAscend ==
    (~isNaN(rounding) /\ rounding > 0) =>
        (Ascending(autoWarmups) /\ Ascending(rampWarmups))

\* the sort moved the three-rep rung behind the last single
C6_Witness ==
    /\ Len(autoWarmups) = 3 /\ Len(rampWarmups) = 4
    /\ autoWarmups[2].reps = 1 /\ autoWarmups[3].reps = 3
    /\ autoWarmups[2].weight < autoWarmups[3].weight

\* C7: the last element of the offset policy's ramp is the single-rep rung
\* of weight roundTo(max(bar, firstSet - offset), step), the offset clamped
\* into [5, 10].
C7_LastRungIsLastWU ==
    autoWarmups # <<>> =>
        autoWarmups[Len(autoWarmups)] = Rung(1, SpecLastWU)

\* C8: with the heavy flag off (and a first working set to start from) the
\* offset policy returns exactly the three rungs 5 x s1, 3 x s2, 1 x lastWU,
\* arranged in ascending weight order; first set 65, bar 20, offset 7.5,
\* step 2.5 give 5 x 25, 3 x 40, 1 x 57.5.
C8_ThreeRungs ==
    (~superHeavy /\ firstWorking # 0) =>
        /\ Arrangement(autoWarmups,
                       <<Rung(5, SpecS1), Rung(3, SpecS2), Rung(1, SpecLastWU)>>)
        /\ Ascending(autoWarmups)
        /\ (firstWorking = 6500 /\ barWeight = 2000 /\ wuOffset = 750 /\ rounding = 250)
              => autoWarmups = <<Rung(5, 2500), Rung(3, 4000), Rung(1, 5750)>>

\* first set 40, bar 10, offset clamped to 10, step 5: 5 x 15, 3 x 25, 1 x 30
C8_Witness ==
    /\ ~superHeavy /\ firstWorking = 4000 /\ barWeight = 1000
    /\ wuOffset = 1200 /\ rounding = 500
    /\ autoWarmups = <<Rung(5, 1500), Rung(3, 2500), Rung(1, 3000)>>

\* C9: with the heavy flag on (and a first working set to start from) the
\* offset policy adds the single-rep rung of weight
\* s3 = roundTo(min(lastWU, max(bar, 0.82 * firstSet)), step) exactly when
\* s3 < lastWU; the ramp then has four rungs, otherwise the three of C8, and
\* the added rung is strictly lighter than the last warm-up and than the
\* ramp's final rung.
C9_HeavyRung ==
    (superHeavy /\ firstWorking # 0) =>
        IF Less(SpecS3, SpecLastWU)
        THEN /\ Arrangement(autoWarmups,
                            <<Rung(5, SpecS1), Rung(3, SpecS2),
                              Rung(1, SpecS3), Rung(1, SpecLastWU)>>)
             /\ SpecS3 < autoWarmups[Len(autoWarmups)].weight
        ELSE /\ Arrangement(autoWarmups,
                            <<Rung(5, SpecS1), Rung(3, SpecS2), Rung(1, SpecLastWU)>>)
             /\ \A i \in 1..Len(autoWarmups) :
                   autoWarmups[i].reps = 1 => autoWarmups[i].weight = SpecLastWU

\* first set 65: the added single is 52.5, under the last warm-up of 57.5
C9_Witness ==
    /\ superHeavy /\ firstWorking = 6500 /\ barWeight = 2000 /\ rounding = 250
    /\ wuOffset = 750
    /\ autoWarmups = <<Rung(5, 2500), Rung(3, 4000), Rung(1, 5250), Rung(1, 5750)>>

\* C10: with top > 0 the percentage ramp is the four rungs 5 x 40 %, 4 x 50 %,
\* 3 x 60 %, 2 x 70 % in that order, each of weight roundTo(top * pct / 100,
\* step); top 67.5 and step 2.5 give 5 x 27.5, 4 x 35, 3 x 40, 2 x 47.5.
C10_PercentageRamp ==
    (~isNaN(topSuggested) /\ topSuggested > 0) =>
        /\ rampWarmups = << Rung(5, roundToQ(40 * topSuggested, 100, rounding)),
                            Rung(4, roundToQ(50 * topSuggested, 100, rounding)),
                            Rung(3, roundToQ(60 * topSuggested, 100, rounding)),
                            Rung(2, roundToQ(70 * topSuggested, 100, rounding)) >>
        /\ (topSuggested = 6750 /\ rounding = 250)
              => rampWarmups = <<Rung(5, 2750), Rung(4, 3500), Rung(3, 4000), Rung(2, 4750)>>

\* top 12.5: 70 % is 8.75, half-way between 7.5 and 10, and rounds up to 10
C10_Witness ==
    /\ topSuggested = 1250 /\ rounding = 250
    /\ rampWarmups = <<Rung(5, 500), Rung(4, 750), Rung(3, 750), Rung(2, 1000)>>

\* C11: under either policy, when the driving weight is zero or there are no
\* suggestions to take it from, the ramp is empty: the offset policy is driven
\* by the first working-set weight, the percentage ramp by the top suggested
\* weight.
C11_NoWeightNoRamp ==
    /\ firstWorking = 0 => autoWarmups = <<>>
    /\ topSuggested = 0 => rampWarmups = <<>>
    /\ suggestedWeights = <<>> => (autoWarmups = <<>> /\ rampWarmups = <<>>)

\* no pattern and no weights: nothing is suggested, both ramps are empty
C11_Witness ==
    /\ quickParsed.sets = 0 /\ lastWeights = <<>> /\ suggestedWeights = <<>>
    /\ firstWorking = 0 /\ topSuggested = 0
    /\ autoWarmups = <<>> /\ rampWarmups = <<>>

\* C12: in every input state, a cleared (NaN) rounding step or bar weight and
\* an empty weight list included, no suggested working weight and no rung
\* weight of either ramp is NaN.
C12_NeverNaN ==
    /\ \A i \in 1..Len(suggestedWeights) : ~isNaN(suggestedWeights[i])
    /\ \A i \in 1..Len(autoWarmups) : ~isNaN(autoWarmups[i].weight)
    /\ \A i \in 1..Len(rampWarmups) : ~isNaN(rampWarmups[i].weight)

\* |d| < 2^50
Below2To50(d) == d.m = <<>> \/ BBitLen(d.m) + d.e <= 50

\* C13, as claimed: roundTo(roundTo(x, step), step) = roundTo(x, step) for
\* every finite x, of either sign, and every step > 0.
C13_Idempotent ==
    Len(ret) = 2 => ret[2] = ret[1]

\* C13, amended: roundTo(roundTo(x, step), step) = roundTo(x, step) for every
\* finite x, of either sign and half-way values included, and every step > 0
\* with |x / step| < 2^50.
C13_IdempotentBelow2To50 ==
    (Len(ret) = 2 /\ Below2To50(Div64(call.val, call.step))) => ret[2] = ret[1]

\* -1.875 at step 1.25 is half-way between -2.5 and -1.25 and rounds up to -1.25
C13_Witness ==
    /\ call.val = Scaled64(0 - 15, 0 - 3) /\ call.step = Scaled64(5, 0 - 2)
    /\ ret = <<Scaled64(0 - 5, 0 - 2), Scaled64(0 - 5, 0 - 2)>>

\* C14: with a positive rounding step, every suggested working weight is an
\* integer multiple of the step, whatever the weight list, the felt tag, the
\* progression mode and the increment tables, edited ones and ones whose
\* increments are not multiples of the step included.
C14_MultiplesOfStep ==
    (~isNaN(rounding) /\ rounding > 0) =>
        \A i \in 1..Len(suggestedWeights) :
            /\ ~isNaN(suggestedWeights[i])
            /\ suggestedWeights[i] % rounding = 0

\* the solid increment edited to -3.75: 56.25, 58.75, 61.25 round to 57.5, 60, 62.5
C14_Witness ==
    /\ progressionMode = "kg" /\ felt = "solid" /\ kgInc["solid"] = 0 - 375
    /\ rounding = 250 /\ lastWeights = <<6000, 6250, 6500>>
    /\ suggestedWeights = <<5750, 6000, 6250>>

\* C15: for every text "N x R", with or without white space around the x and
\* the text, the x in either case, N = 0 included, the parsed pattern has
\* sets = N and N rep counts that all equal R.
C15_SetsByReps ==
    \A n \in 0..MaxPatternSets, r \in PatternReps, x \in {"x", "X"}, g \in GapStyles :
        quickRepsPattern = SetsByRepsText(n, r, x, g) =>
            quickParsed = [sets |-> n, reps |-> [i \in 1..n |-> r]]

\* " 10X 12 " gives ten sets of twelve
C15_Witness ==
    /\ quickRepsPattern = <<" ", "1", "0", "X", " ", "1", "2", " ">>
    /\ quickParsed.sets = 10
    /\ quickParsed.reps = [i \in 1..10 |-> 12]

\* C16: for every list of bare non-negative integers separated by dashes or
\* commas, the parsed pattern has one set per token, in the order of the
\* text, with the token's value as its rep count.
C16_RepList ==
    \A rs \in RepLists(MaxListLen) \ { <<>> }, sep \in ListSeparators, pad \in Gaps :
        quickRepsPattern = RepListText(rs, sep, pad) =>
            quickParsed = [sets |-> Len(rs), reps |-> rs]

\* "12 - 0 - 12" gives the three sets 12, 0, 12
C16_Witness ==
    /\ quickRepsPattern = <<"1", "2", " ", "-", " ", "0", " ", "-", " ", "1", "2">>
    /\ quickParsed = [sets |-> 3, reps |-> <<12, 0, 12>>]

\* C17: a text that is neither "N x R" nor a list of bare integers, the empty
\* text included, parses to the empty pattern; and whatever the text, the
\* pattern has as many rep counts as sets.
C17_JunkIsEmpty ==
    /\ quickRepsPattern \in JunkTexts => quickParsed = [sets |-> 0, reps |-> <<>>]
    /\ Len(quickParsed.reps) = quickParsed.sets

\* "5, 3 sets": the second token is not an integer
C17_Witness ==
    /\ quickRepsPattern = <<"5", ",", " ", "3", " ", "s", "e", "t", "s">>
    /\ quickParsed = [sets |-> 0, reps |-> <<>>]
    /\ suggestedWeights = <<6250, 6500, 6750>>

\* C18: the breakdown is empty whenever (total - bar) / 2 <= 0, and no entry
\* of any breakdown has a zero or negative count.
C18_NoLoadNoPlates ==
    Len(ret) = 1 =>
        /\ (~isNaN(call.total) /\ ~isNaN(call.bar) /\ call.total - call.bar <= 0)
              => ret[1] = <<>>
        /\ \A i \in 1..Len(ret[1]) : ret[1][i].count > 0

\* a total of 7.5 on a bar of 20
C18_Witness ==
    /\ call.total = 75000 /\ call.bar = 200000
    /\ ret = << <<>> >>

\* the count of plate i in the greedy decomposition of the load perSide, and
\* the load left for plate i
RECURSIVE GreedyLeft(_, _)
GreedyCount(perSide, i) == GreedyLeft(perSide, i) \div Plates[i]
GreedyLeft(perSide, i) ==
    IF i = 1 THEN perSide
    ELSE GreedyLeft(perSide, i - 1) - GreedyCount(perSide, i - 1) * Plates[i - 1]

\* the same with the load left rounded to three decimals after a plate is
\* taken
RECURSIVE RoundedLeft(_, _)
RoundedCount(perSide, i) == RoundedLeft(perSide, i) \div Plates[i]
RoundedLeft(perSide, i) ==
    IF i = 1 THEN perSide
    ELSE LET c == RoundedCount(perSide, i - 1)
             l == RoundedLeft(perSide, i - 1)
         IN  IF c > 0 THEN 10 * ((l - c * Plates[i - 1] + 5) \div 10) ELSE l

\* the plates of count # 0 of that decomposition
RoundedPlates(perSide) ==
    SelectSeq([i \in 1..Len(Plates) |-> PlateCount(RoundedCount(perSide, i), Plates[i])],
              LAMBDA e : e.count # 0)

\* the plates of count # 0 of the greedy decomposition of the load perSide
GreedyPlates(perSide) ==
    SelectSeq([i \in 1..Len(Plates) |-> PlateCount(GreedyCount(perSide, i), Plates[i])],
              LAMBDA e : e.count # 0)

\* C19, as claimed: for a per-side load > 0 the breakdown is the greedy
\* decomposition over 25, 20, 15, 10, 5, 2.5, 1.25 in that order, each count
\* the floor of the remaining load over the plate and the load reduced by
\* count * plate before the next plate; total 100 on a bar of 20 gives
\* 1 x 25, 1 x 10, 1 x 5.
C19_GreedyExample ==
    (Len(ret) = 1 /\ ~isNaN(call.total) /\ ~isNaN(call.bar) /\ call.total > call.bar) =>
        /\ ret[1] = GreedyPlates((call.total - call.bar) \div 2)
        /\ (call.total = 1000000 /\ call.bar = 200000)
              => ret[1] = <<PlateCount(1, 250000), PlateCount(1, 100000), PlateCount(1, 50000)>>

\* C19, amended: for a per-side load > 0 the breakdown is that greedy
\* decomposition with the load left rounded to three decimals after each
\* plate taken, the plates of count 0 left out; total 100 on a bar of 20
\* gives 1 x 25, 1 x 15.
C19_Greedy ==
    (Len(ret) = 1 /\ ~isNaN(call.total) /\ ~isNaN(call.bar) /\ call.total > call.bar) =>
        /\ ret[1] = RoundedPlates((call.total - call.bar) \div 2)
        /\ (call.total = 1000000 /\ call.bar = 200000)
              => ret[1] = <<PlateCount(1, 250000), PlateCount(1, 150000)>>

\* total 118.75 without a bar: 59.375 a side is 2 x 25, 1 x 5, 1 x 2.5, 1 x 1.25
C19_Witness ==
    /\ call.total = 1187500 /\ call.bar = 0
    /\ ret = << <<PlateCount(2, 250000), PlateCount(1, 50000), PlateCount(1, 25000),
                  PlateCount(1, 12500)>> >>

\* the item a typed token stands for
TypedItem(d) ==
    [reps |-> d.reps, value |-> d.value, isPercent |-> d.pct, raw |-> TokenText(d)]

\* C20: the parsed manual scheme holds exactly the typed tokens of the form
\* reps (x|@) number [%], in the order typed, each with its reps, its number
\* and its percent flag; a word that is no token is dropped and the tokens
\* around it are kept.
C20_SchemeTokens ==
    Len(ret) = 1 =>
        LET kept == SelectSeq(call.typed, LAMBDA d : d.ok)
        IN  ret[1] = [i \in 1..Len(kept) |-> TypedItem(kept[i])]

\* "abc, 3 x 82.5 %": the word is dropped, the token after it is kept
C20_Witness ==
    /\ call.input = <<"a", "b", "c", ",", " ", "3", " ", "x", " ", "8", "2", ".", "5", " ", "%">>
    /\ Len(ret) = 1 /\ Len(ret[1]) = 1
    /\ ret[1][1].reps = 3 /\ ret[1][1].value = 8250 /\ ret[1][1].isPercent

\* the weight a token resolves to
TokenWeight(item, base, step) ==
    IF item.isPercent THEN roundToQ(Times(base, item.value), 10000, step)
    ELSE roundTo(item.value, step)

\* C21: the resolver gives each token one row, in token order: the row has
\* the token's reps and the weight roundTo(base * value / 100, step) for a
\* percentage, roundTo(value, step) otherwise; with threshold 0 there are as
\* many rows as tokens.
C21_OneRowPerToken ==
    Len(ret) = 1 /\ call.fn \in {"calcRows", "calcRowsMinLoad"} =>
        /\ Len(ret[1]) = Len(call.scheme)
        /\ \A i \in 1..Len(ret[1]) :
              /\ ret[1][i].reps = call.scheme[i].reps
              /\ ret[1][i].weight = TokenWeight(call.scheme[i], call.base, call.rounding)

\* the kg table a lift is specified to start from
LiftTable(l) ==
    IF l = "Bench"
    THEN [easy |-> 250, solid |-> 125, hard |-> 0, missed |-> 0 - 125]
    ELSE [easy |-> 500, solid |-> 250, hard |-> 0, missed |-> 0 - 250]

\* the inputs of the page other than the two increment tables
OtherInputs ==
    << lift, barWeight, rounding, quickRepsPattern, lastWeekWeights, felt,
       progressionMode, wuOffset, superHeavy, manual >>

\* C22: a change of the lift queues the reset, and the reset is the very
\* next step and sets the kg table to the table of the selected lift; apart
\* from the reset the kg table changes only by an edit of the table itself,
\* so an edit outlasts every change of another input; the percentage table
\* changes neither with the lift nor in the reset.
C22_KgTableResetAndKept ==
    [][ /\ (lift' # lift => effectPending' /\ kgInc' = kgInc /\ pctInc' = pctInc)
        /\ (effectPending =>
               /\ ~effectPending'
               /\ kgInc' = LiftTable(lift')
               /\ pctInc' = pctInc
               /\ OtherInputs' = OtherInputs)
        /\ (~effectPending /\ kgInc' # kgInc =>
               OtherInputs' = OtherInputs /\ pctInc' = pctInc) ]_vars

\* Bench selected and its table restored (easy 2.5), then "missed" edited to
\* -3.75, then the rounding step, the felt tag, the mode and the weights
\* changed: the edit is still there
C22_Witness ==
    /\ lift = "Bench" /\ ~effectPending
    /\ kgInc = [easy |-> 250, solid |-> 125, hard |-> 0, missed |-> 0 - 375]
    /\ rounding = 500 /\ felt = "missed" /\ progressionMode = "percent"
    /\ lastWeights = <<0, 0 - 500>>

\* C23: in every state every displayed value is what computing it afresh
\* from the current inputs gives: the suggested weights, the automatic
\* warm-ups of both policies and the rows of both manual schemes, and the
\* values they are computed from.
C23_NothingStale ==
    /\ quickParsed = parseSetsPattern(quickRepsPattern)
    /\ lastWeights = parseLastWeights(lastWeekWeights)
    /\ suggestionDelta = computeSuggestionDelta(progressionMode, kgInc, pctInc, felt,
                                                parseLastWeights(lastWeekWeights), rounding)
    /\ suggestedWeights =
          computeSuggestedWeights(parseSetsPattern(quickRepsPattern),
                                  parseLastWeights(lastWeekWeights),
                                  computeSuggestionDelta(progressionMode, kgInc, pctInc, felt,
                                      parseLastWeights(lastWeekWeights), rounding),
                                  rounding)
    /\ autoWarmups = generateGymWarmups(firstWorking, rounding, superHeavy, barWeight, wuOffset)
    /\ topSuggested = heaviestOf(suggestedWeights)
    /\ rampWarmups = makeWarmupsFromTop(heaviestOf(suggestedWeights), rounding)
    /\ warmRows = calcRows(parseScheme(warmupInput), baseForPercent, rounding)
    /\ workRows = calcRows(parseScheme(workInput), baseForPercent, rounding)

\* after "missed", an offset of 12 and the scheme "5x30, 4x40%": the
\* suggestions are 57.5, 60, 62.5, the last warm-up is 47.5 and the second
\* row is 40 % of 62.5
C23_Witness ==
    /\ felt = "missed" /\ wuOffset = 1200 /\ rounding = 250 /\ progressionMode = "kg"
    /\ suggestedWeights = <<5750, 6000, 6250>>
    /\ Len(autoWarmups) = 3 /\ autoWarmups[3].weight = 4750
    /\ Len(warmRows) = 2 /\ warmRows[2].isPercent /\ warmRows[2].weight = 2500

\* C24: every weight of the parsed weight list is a positive number.
C24_WeightsPositive ==
    \A i \in 1..Len(lastWeights) : ~isNaN(lastWeights[i]) /\ lastWeights[i] > 0

\* C25: in a session in which the kg table is never edited, the increment
\* behind the displayed suggestions of every render is the entry of the
\* table of the selected lift.
C25_TableOfSelectedLift ==
    /\ kgInc = LiftTable(lift)
    /\ (progressionMode = "kg" => suggestionDelta = LiftTable(lift)[felt])

\* C26: the base of the percentage tokens is strictly positive in every
\* state, under both policies: the heaviest suggestion, else the first, else
\* 60 (App.jsx), and the top suggestion, else 60 (part_000).
C26_BasePositive ==
    /\ ~isNaN(baseForPercent) /\ baseForPercent > 0
    /\ ~isNaN(trainingMax) /\ trainingMax > 0

\* the weight of the plates of a breakdown
RECURSIVE PlateSum(_)
PlateSum(out) ==
    IF out = <<>> THEN 0 ELSE Head(out).count * Head(out).plate + PlateSum(Tail(out))

\* C27: the entries of a breakdown are in strictly descending order of
\* plate, and every plate but 25 has a count of at most 1.
C27_DescendingSingles ==
    Len(ret) = 1 =>
        /\ \A i \in 1..Len(ret[1]), j \in 1..Len(ret[1]) :
              i < j => ret[1][i].plate > ret[1][j].plate
        /\ \A i \in 1..Len(ret[1]) :
              ret[1][i].plate # 250000 => ret[1][i].count <= 1

\* C28: for a per-side load > 0 the plates weigh at most the per-side load
\* and less than 1.25 is left; they weigh exactly the per-side load when it
\* is a multiple of 1.25.
C28_SumWithinLoad ==
    (Len(ret) = 1 /\ ~isNaN(call.total) /\ ~isNaN(call.bar) /\ call.total > call.bar) =>
        LET perSide == (call.total - call.bar) \div 2
            loaded  == PlateSum(ret[1])
        IN  /\ loaded <= perSide
            /\ perSide - loaded < 12500
            /\ (perSide % 12500 = 0 => loaded = perSide)

\* C29: the text of every preset, for every bar and base, parses back into
\* as many tokens as the preset has rungs, each a percentage with the reps of
\* its rung.
C29_PresetRoundTrip ==
    (Len(ret) = 2 /\ call.fn = "generateWarmups") =>
        LET seq == presetStyle(call.style, call.barWeight, call.base)
        IN  /\ Len(ret[2]) = Len(seq)
            /\ \A i \in 1..Len(ret[2]) :
                  i <= Len(seq) => ret[2][i].isPercent /\ ret[2][i].reps = seq[i].reps

=============================================================================
